---- MODULE Spec2Model ----
(***************************************************************************)
(* Model of app.py: load_data() reads the movie catalog and the similarity *)
(* structure from disk, recommend(movie) ranks one similarity row.         *)
(*                                                                         *)
(* Numbers are fixed-point with one decimal digit: the float x is the      *)
(* integer Fixed(x), so 0.9 is 9, 1.0 is 10 and the percentage 90.0 is    *)
(* 900.  Positions are 0-based as in the source.                           *)
(***************************************************************************)
EXTENDS Integers, Sequences, FiniteSets, TLC

\* ---------------------------------------------------------------- bounds
MaxN == 3          \* largest similarity structure filled from Scores
MaxWideN == 7      \* largest similarity structure filled from WideScores

\* the number x in the fixed-point encoding
Fixed(x) == x * 10

Scores == {-5, 0, 10, 15}             \* -0.5, 0.0, 1.0, 1.5
WideScores == {5, 10}                 \* 0.5, 1.0
ExampleRow == [j \in 0..3 |-> CASE j = 0 -> 10 [] j = 1 -> 9 [] j = 2 -> 2 [] OTHER -> 5]

TitlePool == <<"A", "B", "C", "D", "E", "F", "G", "H", "I", "J">>
Unknown == "Unknown Movie"

MoviesFile == "movies_dict.pkl"
SparseFile == "similarity_sparse.npz"
DenseFile == "similarity1.pkl"
DocDenseFile == "similarity.pkl"
Files == {MoviesFile, SparseFile, DenseFile, DocDenseFile}

TopFrom == 1       \* sorted(...)[1:6]
TopTo == 6
Cap == Fixed(100)  \* min(..., 100)

Min(a, b) == IF a < b THEN a ELSE b

VARIABLES disk, pc, movies, similarity, is_sparse, movie, called, repeated, result, error, escaped

vars == <<disk, pc, movies, similarity, is_sparse, movie, called, repeated, result, error, escaped>>

\* ------------------------------------------------------------ file content
\* The catalog stored in movies_dict.pkl: n unique titles at positions 0..n-1.
Catalog(n) == [i \in 0..(n - 1) |-> TitlePool[i + 1]]

\* The logical m x m matrix whose row i is base rotated so that base[0], the
\* self-similarity, sits on the diagonal.
Matrix(base, m) == [i \in 0..(m - 1) |-> [j \in 0..(m - 1) |-> base[(j - i + m) % m]]]

\* Long rows: any self-similarity, then t entries of 1.0, then entries of 0.5.
WideRows(m) ==
    {[j \in 0..(m - 1) |-> IF j = 0 THEN s ELSE IF j <= t THEN 10 ELSE 5] :
        s \in WideScores, t \in 0..(m - 1)}

BaseRows(m) ==
    (IF m <= MaxN THEN [0..(m - 1) -> Scores] ELSE WideRows(m))
        \cup (IF m = 4 THEN {ExampleRow} ELSE {})

\* similarity1.pkl holds the full array.
Dense(mat, m) == [kind |-> "ndarray", shape |-> m, rows |-> mat]

\* similarity_sparse.npz holds only the non-zero entries and the shape.
Sparse(mat, m) ==
    LET nz == {c \in (0..(m - 1)) \X (0..(m - 1)) : mat[c[1]][c[2]] # 0}
    IN [kind |-> "csr", shape |-> m, data |-> [c \in nz |-> mat[c[1]][c[2]]]]

\* similarity[:, i].toarray(): the column instead of the row
ToArrayColumn(sp, i) ==
    [j \in 0..(sp.shape - 1) |-> IF <<j, i>> \in DOMAIN sp.data THEN sp.data[<<j, i>>] ELSE 0]

\* similarity[i].toarray()[0]: the stored entries of row i, zero elsewhere.
ToArrayRow(sp, i) ==
    [j \in 0..(sp.shape - 1) |-> IF <<i, j>> \in DOMAIN sp.data THEN sp.data[<<i, j>>] ELSE 0]

\* ------------------------------------------------------------- recommend
\* movies[movies['title'] == movie].index
Matches(mv, title) == {i \in DOMAIN mv : mv[i] = title}

SetMin(S) == CHOOSE x \in S : \A y \in S : x <= y

\* a lookup that falls back to position 0 when nothing matches
LookupDefault(mv, title) ==
    IF Matches(mv, title) = {}
    THEN [exc |-> "none", index |-> 0]
    ELSE [exc |-> "none", index |-> SetMin(Matches(mv, title))]

\* .index[0]: the first match; an empty index raises IndexError.
Lookup(mv, title) ==
    IF Matches(mv, title) = {}
    THEN [exc |-> "IndexError", index |-> 0]
    ELSE [exc |-> "none", index |-> SetMin(Matches(mv, title))]

\* similarity[movie_index] for either representation.
GetRow(sim, sparse, i) ==
    IF i >= sim.shape
    THEN [exc |-> "IndexError", row |-> <<>>]
    ELSE [exc |-> "none", row |-> IF sparse THEN ToArrayRow(sim, i) ELSE sim.rows[i]]

\* list(enumerate(distances))
RECURSIVE EnumerateFrom(_, _)
EnumerateFrom(row, j) ==
    IF j \notin DOMAIN row THEN <<>> ELSE <<(<<j, row[j]>>)>> \o EnumerateFrom(row, j + 1)

Enumerate(row) == EnumerateFrom(row, 0)

\* an insertion that puts p in front of the elements equal to it
RECURSIVE InsertBeforeEqual(_, _)
InsertBeforeEqual(p, s) ==
    IF s = <<>> THEN <<p>>
    ELSE IF s[1][2] > p[2] THEN <<s[1]>> \o InsertBeforeEqual(p, Tail(s))
    ELSE <<p>> \o s

\* One step of the stable descending sort: p goes behind every element whose
\* key is at least its own.
RECURSIVE Insert(_, _)
Insert(p, s) ==
    IF s = <<>> THEN <<p>>
    ELSE IF s[1][2] >= p[2] THEN <<s[1]>> \o Insert(p, Tail(s))
    ELSE <<p>> \o s

\* sorted(pairs, reverse=True, key=lambda x: x[1])
RECURSIVE SortedDesc(_)
SortedDesc(pairs) ==
    IF pairs = <<>> THEN <<>>
    ELSE Insert(pairs[Len(pairs)], SortedDesc(SubSeq(pairs, 1, Len(pairs) - 1)))

\* a slice that includes its end index
SliceInclusive(s, a, b) == SubSeq(s, a + 1, Min(b + 1, Len(s)))

\* s[a:b] of Python on a 1-based sequence
Slice(s, a, b) == SubSeq(s, a + 1, Min(b, Len(s)))

\* [0:5] of the sorted pairs: the first sorted pair is kept
TopPairsFromZero(row) == Slice(SortedDesc(Enumerate(row)), 0, TopTo - TopFrom)

\* [1:6] of the sorted pairs
TopPairs(row) == Slice(SortedDesc(Enumerate(row)), TopFrom, TopTo)

\* the score left as a fraction
TimesOne(x) == x

\* float(x) * 100
Times100(x) == x * 100

\* min(float(i[1]) * 100, 100)
SimilarityScore(x) == Min(Times100(x), Cap)

\* the loop body: movies.iloc[i[0]].title raises IndexError off the catalog
Entry(mv, p) == [title |-> mv[p[1]], similarity_score |-> SimilarityScore(p[2])]

BuildList(mv, pairs) ==
    IF \E k \in 1..Len(pairs) : pairs[k][1] \notin DOMAIN mv
    THEN [exc |-> "IndexError", value |-> <<>>]
    ELSE [exc |-> "none", value |-> [k \in 1..Len(pairs) |-> Entry(mv, pairs[k])]]

\* the body of the try block of recommend
Body(mv, sim, sparse, title) ==
    LET l == Lookup(mv, title) IN
    IF l.exc # "none" THEN [exc |-> l.exc, value |-> <<>>]
    ELSE LET r == GetRow(sim, sparse, l.index) IN
         IF r.exc # "none" THEN [exc |-> r.exc, value |-> <<>>]
         ELSE BuildList(mv, TopPairs(r.row))

\* except Exception
Caught(exc) == exc # "none"

\* what recommend hands back: the list, whether st.error was called, and
\* whether an exception left the function
Outcome(mv, sim, sparse, title) ==
    LET b == Body(mv, sim, sparse, title) IN
    IF b.exc = "none" THEN [value |-> b.value, error |-> FALSE, escaped |-> FALSE]
    ELSE IF Caught(b.exc) THEN [value |-> <<>>, error |-> TRUE, escaped |-> FALSE]
    ELSE [value |-> <<>>, error |-> FALSE, escaped |-> TRUE]

\* ------------------------------------------------------------- load_data
\* the file the inner except clause opens
FallbackFile == DenseFile

NoSimilarity == [kind |-> "None", shape |-> 0]

\* load_data(): the pickles hold a catalog of n titles and an m x m matrix
LoadData(d, n, m, base) ==
    IF MoviesFile \notin d THEN [ok |-> FALSE, movies |-> <<>>, similarity |-> NoSimilarity, is_sparse |-> FALSE]
    ELSE IF SparseFile \in d
         THEN [ok |-> TRUE, movies |-> Catalog(n), similarity |-> Sparse(Matrix(base, m), m), is_sparse |-> TRUE]
    ELSE IF FallbackFile \in d
         THEN [ok |-> TRUE, movies |-> Catalog(n), similarity |-> Dense(Matrix(base, m), m), is_sparse |-> FALSE]
    ELSE [ok |-> FALSE, movies |-> <<>>, similarity |-> NoSimilarity, is_sparse |-> FALSE]

\* --------------------------------------------------------------- actions
Init ==
    /\ disk \in SUBSET Files
    /\ pc = "start"
    /\ movies = <<>>
    /\ similarity = NoSimilarity
    /\ is_sparse = FALSE
    /\ movie = Unknown
    /\ called = FALSE
    /\ repeated = FALSE
    /\ result = <<>>
    /\ error = FALSE
    /\ escaped = FALSE

\* movies, similarity, is_sparse = load_data() and the test that follows
Load ==
    /\ pc = "start"
    /\ \E m \in 0..MaxWideN : \E n \in {m - 1, m, m + 1} \cap (0..MaxWideN) : \E base \in BaseRows(m) :
         LET l == LoadData(disk, n, m, base) IN
         /\ movies' = l.movies
         /\ similarity' = l.similarity
         /\ is_sparse' = l.is_sparse
         /\ pc' = IF l.ok THEN "ready" ELSE "failed"
    /\ UNCHANGED <<disk, movie, called, repeated, result, error, escaped>>

\* the row's values in sorted order
SortedValues(row) == [j \in DOMAIN row |-> SortedDesc(Enumerate(row))[j + 1][2]]

\* a recommend that sorts the dense row where it lies (distances.sort) before
\* ranking it
RecommendSortInPlace(title) ==
    /\ pc = "ready"
    /\ LET l == Lookup(movies, title)
           hit == ~is_sparse /\ l.exc = "none" /\ l.index < similarity.shape
           sim == IF hit THEN [similarity EXCEPT !.rows[l.index] = SortedValues(@)] ELSE similarity
           o == Outcome(movies, sim, is_sparse, title)
       IN /\ result' = o.value
          /\ error' = o.error
          /\ escaped' = o.escaped
          /\ similarity' = sim
    /\ movie' = title
    /\ called' = TRUE
    /\ repeated' = (called /\ movie = title)
    /\ UNCHANGED <<disk, pc, movies, is_sparse>>

\* recommend(movie)
Recommend(title) ==
    /\ pc = "ready"
    /\ LET o == Outcome(movies, similarity, is_sparse, title) IN
         /\ result' = o.value
         /\ error' = o.error
         /\ escaped' = o.escaped
    /\ movie' = title
    /\ called' = TRUE
    /\ repeated' = (called /\ movie = title)
    /\ UNCHANGED <<disk, pc, movies, similarity, is_sparse>>

Next ==
    \/ Load
    \/ \E title \in (DOMAIN movies \cup {-1}) : Recommend(IF title = -1 THEN Unknown ELSE movies[title])

Spec == Init /\ [][Next]_vars

\* ------------------------------------------------------------ properties
N == Cardinality(DOMAIN movies)

Titles == {movies[i] : i \in DOMAIN movies}

\* a call has returned for a title of the catalog
ValidCall == called /\ movie \in Titles

\* the similarity structure is N x N
WellFormed == similarity.shape = N

PosOf(title) == CHOOSE i \in DOMAIN movies : movies[i] = title

QueryIndex == PosOf(movie)

\* the logical row of the query movie
QueryRow == GetRow(similarity, is_sparse, QueryIndex).row

\* j comes before p in the order (score descending, position ascending)
Before(row, j, p) == row[j] > row[p] \/ (row[j] = row[p] /\ j < p)

\* 0-based rank of position p in that order
Rank(row, p) == Cardinality({j \in DOMAIN row : Before(row, j, p)})

ResultTitles == {result[k].title : k \in 1..Len(result)}

\* C1: for a title of the catalog, no returned Recommendation carries the
\* query title.
C1_QueryExcluded ==
    (ValidCall /\ WellFormed) => movie \notin ResultTitles

\* the values of k the specification's examples ask for
KValues == {2, 5, 10}

\* C2: for a title of the catalog and every k, the list has exactly
\* min(k, N-1) entries.
C2_LengthMinKN ==
    (ValidCall /\ WellFormed) => \A k \in KValues : Len(result) = Min(k, N - 1)

\* C2 as amended: recommend takes no k; for a title of the catalog and an
\* N x N structure the list has exactly min(5, N-1) entries.
C2_LengthMin5N ==
    (ValidCall /\ WellFormed) => (~error /\ Len(result) = Min(5, N - 1))

C2_Witness ==
    ValidCall /\ WellFormed /\ N >= 7 /\ Len(result) = 5

\* C3: the returned list is in descending order of the row entries it was
\* sorted by, its similarity scores are non-increasing, and two returned
\* movies with equal row entries appear in ascending catalog position.
C3_SortedTiesAscending ==
    (called /\ result # <<>>) =>
        \A a, b \in 1..Len(result) :
            a < b =>
                LET pa == PosOf(result[a].title)
                    pb == PosOf(result[b].title)
                IN /\ result[a].similarity_score >= result[b].similarity_score
                   /\ QueryRow[pa] >= QueryRow[pb]
                   /\ QueryRow[pa] = QueryRow[pb] => pa < pb

C3_Witness ==
    /\ called
    /\ Len(result) >= 3
    /\ \E a, b \in 1..Len(result) :
         /\ a < b
         /\ QueryRow[PosOf(result[a].title)] = QueryRow[PosOf(result[b].title)]
    /\ \E a, b \in 1..Len(result) :
         /\ a < b
         /\ QueryRow[PosOf(result[a].title)] > QueryRow[PosOf(result[b].title)]

\* C4: every returned similarity_score lies in [0, 100].
C4_ScoreInRange ==
    (ValidCall /\ WellFormed) => \A k \in 1..Len(result) :
        /\ result[k].similarity_score >= 0
        /\ result[k].similarity_score <= Cap

\* the call fails: the title is absent, its index is outside the structure,
\* or a position the slice retains is outside the catalog
Absent == movie \notin Titles

IndexOutside == ~Absent /\ QueryIndex >= similarity.shape

RetainedOutside ==
    /\ ~Absent
    /\ ~IndexOutside
    /\ \E p \in DOMAIN QueryRow :
         /\ p \notin DOMAIN movies
         /\ Rank(QueryRow, p) >= 1
         /\ Rank(QueryRow, p) <= 5

Failure == Absent \/ IndexOutside \/ RetainedOutside

C5_WitnessAbsent == called /\ Absent /\ N >= 2 /\ similarity.shape >= 2 /\ error /\ result = <<>>

C5_WitnessIndex == called /\ IndexOutside /\ error /\ result = <<>>

C5_WitnessRow == called /\ RetainedOutside /\ error /\ result = <<>>

Logical(sim, sparse) ==
    [i \in 0..(sim.shape - 1) |-> IF sparse THEN ToArrayRow(sim, i) ELSE sim.rows[i]]

OtherRepresentation ==
    IF is_sparse
    THEN Dense(Logical(similarity, TRUE), similarity.shape)
    ELSE Sparse(similarity.rows, similarity.shape)

\* C6: the call returns what it returns on the other representation (dense
\* for compressed, compressed for dense) of the same logical matrix.
C6_RepresentationTransparent ==
    called =>
        LET o == Outcome(movies, OtherRepresentation, ~is_sparse, movie)
        IN result = o.value /\ error = o.error /\ escaped = o.escaped

C6_Witness ==
    /\ ValidCall
    /\ is_sparse
    /\ Len(result) >= 2
    /\ \E j \in DOMAIN QueryRow : QueryRow[j] = 0
    /\ \E j \in DOMAIN QueryRow : QueryRow[j] # 0

\* the state of the specification's example
ExampleCall ==
    /\ called
    /\ movie = "A"
    /\ N = 4
    /\ WellFormed
    /\ QueryRow = ExampleRow

\* C7: every returned Recommendation carries a catalog title and
\* min(score * 100, 100) of the row entry at that title's position; in the
\* example the first two entries are B with 90 and D with 50.
C7_TitleScorePairing ==
    /\ called =>
         \A k \in 1..Len(result) :
             /\ result[k].title \in Titles
             /\ result[k].similarity_score =
                    Min(QueryRow[PosOf(result[k].title)] * 100, Fixed(100))
    /\ ExampleCall =>
         /\ Len(result) >= 2
         /\ result[1] = [title |-> "B", similarity_score |-> Fixed(90)]
         /\ result[2] = [title |-> "D", similarity_score |-> Fixed(50)]

C7_Witness == ExampleCall /\ Len(result) = 3

\* C8: a call changes neither the catalog nor the similarity structure, and a
\* call that repeats the title of the call before it returns the same list.
C8_PureIdempotent ==
    [][pc = "ready" =>
          /\ movies' = movies
          /\ similarity' = similarity
          /\ is_sparse' = is_sparse
          /\ (called /\ movie' = movie) => (result' = result /\ error' = error)]_vars

C8_Witness == ValidCall /\ repeated /\ ~is_sparse /\ Len(result) >= 2

\* C9: loading succeeds whenever movies_dict.pkl and one of similarity.pkl or
\* similarity_sparse.npz can be loaded; the compressed file is used when it
\* can be loaded, the dense one otherwise.
C9_LoadSucceeds ==
    (pc # "start" /\ MoviesFile \in disk /\ (DocDenseFile \in disk \/ SparseFile \in disk)) =>
        /\ pc = "ready"
        /\ is_sparse <=> SparseFile \in disk

\* the position at 0-based rank r of the row without the query position
IdealAt(row, q, r) ==
    CHOOSE p \in DOMAIN row \ {q} :
        Cardinality({j \in DOMAIN row \ {q} : Before(row, j, p)}) = r

\* the result is the first 5 of the row in (score descending, position
\* ascending) order with the query position removed
MatchesIdeal ==
    /\ Len(result) = Min(5, Cardinality(DOMAIN QueryRow) - 1)
    /\ \A k \in 1..Len(result) :
         result[k] = Entry(movies, <<IdealAt(QueryRow, QueryIndex, k - 1),
                                     QueryRow[IdealAt(QueryRow, QueryIndex, k - 1)]>>)

\* no other position sorts before the query position
QueryFirst == Rank(QueryRow, QueryIndex) = 0

\* the title that sorted first
FirstTitle == movies[CHOOSE p \in DOMAIN QueryRow : Rank(QueryRow, p) = 0]

\* C10: the result is the ideal list exactly when the query sorts first;
\* otherwise the query movie is in the result and the movie that sorted first
\* is missing.
C10_DropsFirstSorted ==
    (ValidCall /\ WellFormed) =>
        /\ MatchesIdeal <=> QueryFirst
        /\ ~QueryFirst => (movie \in ResultTitles /\ FirstTitle \notin ResultTitles)

\* C10 as amended: the result is the ideal list exactly when the query sorts
\* first; otherwise the movie that sorted first is missing, and the query
\* movie is in the result exactly when it sorted among the next five.
C10_DropsFirstSortedRank ==
    (ValidCall /\ WellFormed) =>
        /\ MatchesIdeal <=> QueryFirst
        /\ ~QueryFirst =>
             /\ FirstTitle \notin ResultTitles
             /\ movie \in ResultTitles <=> Rank(QueryRow, QueryIndex) <= 5

C10_Witness ==
    /\ ValidCall
    /\ WellFormed
    /\ Rank(QueryRow, QueryIndex) >= 6
    /\ Len(result) = 5
    /\ movie \notin ResultTitles

C10_WitnessQueryReturned ==
    ValidCall /\ WellFormed /\ ~QueryFirst /\ movie \in ResultTitles

====
